---- MODULE Spec2Model ----
(***************************************************************************)
(* Model of v4.py: a Streamlit page script that fetches intraday bars for  *)
(* the VIX and for a list of symbols, derives EMA / RSI / volume           *)
(* indicators and classifies each symbol into an alert level.              *)
(*                                                                         *)
(* Number representation.  Prices, indicator values, ratios and            *)
(* percentages are fixed-point integers in hundredths (100.00 is 10000).   *)
(* A float that can be NaN or infinite (RSI, volume ratio) is a record     *)
(* [k |-> "num" | "nan" | "inf", v |-> hundredths].                        *)
(* Python's None is the empty set and a present value x is {x}; Python's   *)
(* empty dict {} is likewise the empty set.                                *)
(*                                                                         *)
(* Two specifications:                                                     *)
(*   Spec         the page script as Streamlit runs it (lines 105-177);    *)
(*   SpecAnalyze  get_vix_info, fetch_data and analyze_stock applied to    *)
(*                drawn inputs (the functions' own behaviour).             *)
(***************************************************************************)
EXTENDS Integers, Sequences, FiniteSets, TLC

VARIABLES
  ema_fast_val,   \* sidebar slider, line 19
  ema_slow_val,   \* sidebar slider, line 20
  yf,             \* what yf.download returns for each ticker in this run
  pc,             \* position of the running script / of the caller
  vix_val,        \* line 108
  vix_chg,        \* line 108
  stock_results,  \* line 121: mapping symbol -> (df, info)
  df_raw,         \* line 124: the argument handed to analyze_stock
  ret,            \* what analyze_stock returned
  exc             \* exception that reached the top of the script, or "none"

vars == <<ema_fast_val, ema_slow_val, yf, pc, vix_val, vix_chg, stock_results, df_raw, ret, exc>>

----------------------------------------------------------------------------
(* Program constants *)

EmaFastMin == 5
EmaFastDefault == 9
EmaFastMax == 20
EmaSlowMin == 21
EmaSlowMax == 50
MinBars == 25
RsiPeriod == 14
VolWindow == 10
RsiOverbought == 7500
RsiOversold == 2500
VolSpikeRatio == 200
DefaultVixVal == 2000
DefaultVixChg == 0

(* line 15-16: the default watch list, stripped and upper-cased *)
symbols == <<"AAPL", "NVDA", "TSLA", "QQQ">>

VixTicker == "^VIX"

(* Bounds of the model *)
MaxBars == 51
MaxVixBars == 3

----------------------------------------------------------------------------
(* Python values *)

None == {}
Some(x) == {x}
Val(s) == CHOOSE x \in s : TRUE

Num(v) == [k |-> "num", v |-> v]
NaN == [k |-> "nan", v |-> 0]
Inf == [k |-> "inf", v |-> 0]

(* x > c and x < c for a float x; every comparison with NaN is False *)
FGt(x, c) == (x.k = "num" /\ x.v > c) \/ x.k = "inf"
FLt(x, c) == x.k = "num" /\ x.v < c

(* numpy / pandas float division a / b of two non-negative numbers: no     *)
(* exception, 0/0 is NaN and a/0 is inf                                    *)
npdiv(a, b) ==
  IF b = 0 THEN (IF a = 0 THEN NaN ELSE Inf)
  ELSE Num((a * 100) \div b)

----------------------------------------------------------------------------
(* fetch_data, lines 23-31.  A download is [err, data]: yf.download raised, *)
(* or returned the frame data (a sequence of bars, possibly empty).        *)

fetch_data(dl) ==
  IF dl.err THEN None
  ELSE IF Len(dl.data) = 0 THEN None
  ELSE Some(dl.data)

(* a variant whose length test is off by one: a single bar is used *)
get_vix_info_one_bar(dl) ==
  LET vix == fetch_data(dl) IN
  IF vix = None \/ Len(Val(vix)) < 1 THEN <<DefaultVixVal, DefaultVixChg>>
  ELSE LET v == Val(vix)
           n == Len(v)
       IN <<v[n].Close, v[n].Close - v[IF n > 1 THEN n - 1 ELSE n].Close>>

(* get_vix_info, lines 40-43: <<level, delta>> *)
get_vix_info(dl) ==
  LET vix == fetch_data(dl) IN
  IF vix = None \/ Len(Val(vix)) < 2 THEN <<DefaultVixVal, DefaultVixChg>>
  ELSE LET v == Val(vix)
           n == Len(v)
       IN <<v[n].Close, v[n].Close - v[n - 1].Close>>

----------------------------------------------------------------------------
(* Indicators *)

RECURSIVE ewm(_, _, _)
(* Series.ewm(span, adjust=False).mean() at row i: seed is the first       *)
(* close, then alpha*close + (1-alpha)*previous with alpha = 2/(span+1)    *)
ewm(d, span, i) ==
  IF i = 1 THEN d[1].Close
  ELSE (2 * d[i].Close + (span - 1) * ewm(d, span, i - 1)) \div (span + 1)

RECURSIVE SumGain(_, _, _)
(* sum over rows lo..hi of delta.where(delta > 0, 0); row 1 has no delta *)
SumGain(d, lo, hi) ==
  IF lo > hi THEN 0
  ELSE (IF hi > 1 /\ d[hi].Close - d[hi - 1].Close > 0
        THEN d[hi].Close - d[hi - 1].Close ELSE 0) + SumGain(d, lo, hi - 1)

RECURSIVE SumLoss(_, _, _)
(* sum over rows lo..hi of -delta.where(delta < 0, 0) *)
SumLoss(d, lo, hi) ==
  IF lo > hi THEN 0
  ELSE (IF hi > 1 /\ d[hi].Close - d[hi - 1].Close < 0
        THEN d[hi - 1].Close - d[hi].Close ELSE 0) + SumLoss(d, lo, hi - 1)

RECURSIVE SumVolume(_, _, _)
SumVolume(d, lo, hi) ==
  IF lo > hi THEN 0 ELSE d[hi].Volume + SumVolume(d, lo, hi - 1)

(* calculate_rsi, lines 33-38, at row i *)
calculate_rsi(d, i) ==
  IF i < RsiPeriod THEN NaN
  ELSE LET gain == SumGain(d, i - RsiPeriod + 1, i)
           loss == SumLoss(d, i - RsiPeriod + 1, i)
           rs == npdiv(gain, loss)
       IN IF rs.k = "nan" THEN NaN
          ELSE IF rs.k = "inf" THEN Num(10000)
          ELSE Num(10000 - (10000 * 100) \div (100 + rs.v))

(* df['Volume'].rolling(window=10).mean() at row i, line 53 *)
Vol_MA(d, i) ==
  IF i < VolWindow THEN NaN
  ELSE Num((SumVolume(d, i - VolWindow + 1, i) * 100) \div VolWindow)

(* one row of the frame after lines 50-53 *)
Row(d, i, fast, slow) ==
  [Close |-> d[i].Close, Volume |-> d[i].Volume,
   EMA_F |-> ewm(d, fast, i), EMA_S |-> ewm(d, slow, i),
   RSI |-> calculate_rsi(d, i), Vol_MA |-> Vol_MA(d, i)]

----------------------------------------------------------------------------
(* Classification, lines 66-85 *)

is_gold(prev, last) == prev.EMA_F <= prev.EMA_S /\ last.EMA_F > last.EMA_S
is_death(prev, last) == prev.EMA_F >= prev.EMA_S /\ last.EMA_F < last.EMA_S

(* a variant in which the death branch looks at the VIX delta as the       *)
(* golden branch does                                                      *)
alert_rules_death_vix(gold, death, curr_rsi, vchg) ==
  IF gold THEN [msg |-> "GoldenCross", alert_level |-> IF vchg < 0 THEN "error" ELSE "warning"]
  ELSE IF death THEN [msg |-> "DeathCross", alert_level |-> IF vchg > 0 THEN "error" ELSE "warning"]
  ELSE IF FGt(curr_rsi, RsiOverbought) THEN [msg |-> "RsiOverbought", alert_level |-> "warning"]
  ELSE IF FLt(curr_rsi, RsiOversold) THEN [msg |-> "RsiOversold", alert_level |-> "warning"]
  ELSE [msg |-> "", alert_level |-> "success"]

(* a variant in which the RSI tests come before the crossover tests *)
alert_rules_rsi_first(gold, death, curr_rsi, vchg) ==
  IF FGt(curr_rsi, RsiOverbought) THEN [msg |-> "RsiOverbought", alert_level |-> "warning"]
  ELSE IF FLt(curr_rsi, RsiOversold) THEN [msg |-> "RsiOversold", alert_level |-> "warning"]
  ELSE IF gold THEN [msg |-> "GoldenCross", alert_level |-> IF vchg < 0 THEN "error" ELSE "warning"]
  ELSE IF death THEN [msg |-> "DeathCross", alert_level |-> "error"]
  ELSE [msg |-> "", alert_level |-> "success"]

(* lines 66-67 and 73-85.  The messages stand for the script's strings:    *)
(* GoldenCross, DeathCross, RsiOverbought, RsiOversold, "" (no message)    *)
alert_rules(gold, death, curr_rsi, vchg) ==
  IF gold THEN [msg |-> "GoldenCross", alert_level |-> IF vchg < 0 THEN "error" ELSE "warning"]
  ELSE IF death THEN [msg |-> "DeathCross", alert_level |-> "error"]
  ELSE IF FGt(curr_rsi, RsiOverbought) THEN [msg |-> "RsiOverbought", alert_level |-> "warning"]
  ELSE IF FLt(curr_rsi, RsiOversold) THEN [msg |-> "RsiOversold", alert_level |-> "warning"]
  ELSE [msg |-> "", alert_level |-> "success"]

(* analyze_stock, lines 45-100.  Result: [exc, df, info]; exc is the       *)
(* exception the call raised ("none" when it returned), df the returned    *)
(* frame (its length and last two rows) or None, info the dict or {}.      *)
analyze_stock(df, vchg, fast, slow) ==
  IF df = None \/ Len(Val(df)) < MinBars
  THEN [exc |-> "none", df |-> None, info |-> {}]
  ELSE
    LET d == Val(df)
        n == Len(d)
        last == Row(d, n, fast, slow)
        prev == Row(d, n - 1, fast, slow)
        curr_p == last.Close
        prev_p == prev.Close
    IN
    IF prev_p = 0
    THEN \* line 61: division of two Python floats
         [exc |-> "ZeroDivisionError", df |-> None, info |-> {}]
    ELSE
      LET p_chg_pct == ((curr_p - prev_p) * 100 * 100) \div prev_p
          curr_rsi == last.RSI
          vol_ratio == IF last.Vol_MA.k = "nan" THEN NaN
                       ELSE npdiv(last.Volume * 100, last.Vol_MA.v)
          rule == alert_rules(is_gold(prev, last), is_death(prev, last), curr_rsi, vchg)
          vol_msg == IF FGt(vol_ratio, VolSpikeRatio) THEN "spike" ELSE "normal"
      IN [exc |-> "none",
          df |-> Some([len |-> n, last |-> last, prev |-> prev]),
          info |-> {[price |-> curr_p, pct |-> p_chg_pct, rsi |-> curr_rsi,
                    vol_ratio |-> vol_ratio,
                    trend |-> IF last.EMA_F > last.EMA_S THEN "bull" ELSE "bear",
                    msg |-> rule.msg, alert_level |-> rule.alert_level,
                    vol_msg |-> vol_msg]}]

NoResult == [exc |-> "none", df |-> None, info |-> {}]

----------------------------------------------------------------------------
(* Inputs: what the quote source can return *)

Bar(c, v) == [Close |-> c, Volume |-> v]

(* n bars: flat at base with volume v0, then a previous close pcl and a    *)
(* last close lcl with volume vl                                           *)
MkBars(n, base, pcl, lcl, v0, vl) ==
  [i \in 1..n |-> Bar(IF i = n THEN lcl ELSE IF i = n - 1 THEN pcl ELSE base,
                      IF i = n THEN vl ELSE v0)]

Raised == [err |-> TRUE, data |-> <<>>]
Got(data) == [err |-> FALSE, data |-> data]

BarLens == {1, 2, MinBars - 1, MinBars, MinBars + 1, MaxBars - 1, MaxBars}
PrevCloses == {0, 9900, 10000, 10100}
LastCloses == {9700, 10000, 10300}
Volumes == {<<0, 0>>, <<1000, 1000>>, <<1000, 5000>>}
VixCloses == {1900, 2000, 2060}
FastVals == {EmaFastMin, EmaFastDefault, EmaFastMax}
SlowVals == {EmaSlowMin, EmaSlowMax}

SymDls ==
  {Raised, Got(<<>>)} \cup
  {Got(MkBars(n, 10000, p, l, v[1], v[2])) :
     n \in BarLens, p \in PrevCloses, l \in LastCloses, v \in Volumes}

VixDls ==
  {Raised} \cup
  {Got(MkBars(n, 2000, p, l, 0, 0)) : n \in 0..MaxVixBars, p \in VixCloses, l \in VixCloses}

PageDls == {Raised, Got(<<>>), Got(MkBars(MinBars, 10000, 10000, 10300, 1000, 1000))}

Tickers == {VixTicker} \cup {symbols[i] : i \in 1..Len(symbols)}

----------------------------------------------------------------------------
(* The page script, lines 105-177 *)

Init ==
  /\ ema_fast_val \in FastVals
  /\ ema_slow_val \in SlowVals
  /\ \E v \in VixDls, f \in [Tickers \ {VixTicker} -> PageDls] :
       yf = [t \in Tickers |-> IF t = VixTicker THEN v ELSE f[t]]
  /\ pc = "start"
  /\ vix_val = 0
  /\ vix_chg = 0
  /\ stock_results = <<>>
  /\ df_raw = None
  /\ ret = NoResult
  /\ exc = "none"

(* line 108 *)
GetVixInfo ==
  /\ pc = "start"
  /\ LET r == get_vix_info(yf[VixTicker]) IN
       /\ vix_val' = r[1]
       /\ vix_chg' = r[2]
  /\ pc' = "banner"
  /\ UNCHANGED <<ema_fast_val, ema_slow_val, yf, stock_results, df_raw, ret, exc>>

(* lines 109-110: the f-string reads v_chg, a name the script never binds; *)
(* NameError leaves the with block and the while loop and ends the run.    *)
(* Lines 111-177 (stock_results = {}, the per-symbol loop, sleep, rerun)   *)
(* are not reached.                                                        *)
VixBanner ==
  /\ pc = "banner"
  /\ exc' = "NameError"
  /\ pc' = "raised"
  /\ UNCHANGED <<ema_fast_val, ema_slow_val, yf, vix_val, vix_chg, stock_results, df_raw, ret>>

Next == GetVixInfo \/ VixBanner

Spec == Init /\ [][Next]_vars

----------------------------------------------------------------------------
(* The functions applied to drawn inputs *)

InitAnalyze ==
  /\ ema_fast_val \in FastVals
  /\ ema_slow_val \in SlowVals
  /\ \E v \in VixDls, d \in SymDls :
       yf = [t \in Tickers |-> IF t = VixTicker THEN v
                               ELSE IF t = symbols[1] THEN d ELSE Got(<<>>)]
  /\ pc = "call_vix"
  /\ vix_val = 0
  /\ vix_chg = 0
  /\ stock_results = <<>>
  /\ df_raw = None
  /\ ret = NoResult
  /\ exc = "none"

CallGetVixInfo ==
  /\ pc = "call_vix"
  /\ LET r == get_vix_info(yf[VixTicker]) IN
       /\ vix_val' = r[1]
       /\ vix_chg' = r[2]
  /\ pc' = "call_analyze"
  /\ UNCHANGED <<ema_fast_val, ema_slow_val, yf, stock_results, df_raw, ret, exc>>

(* lines 124-125 for one symbol: fetch, then analyze with the VIX delta *)
CallAnalyzeStock ==
  /\ pc = "call_analyze"
  /\ \E i \in 1..Len(symbols) :
       LET d == fetch_data(yf[symbols[i]])
           r == analyze_stock(d, vix_chg, ema_fast_val, ema_slow_val)
       IN /\ df_raw' = d
          /\ ret' = r
          /\ exc' = r.exc
          /\ pc' = IF r.exc = "none" THEN "returned" ELSE "raised"
  /\ UNCHANGED <<ema_fast_val, ema_slow_val, yf, vix_val, vix_chg, stock_results>>

NextAnalyze == CallGetVixInfo \/ CallAnalyzeStock

SpecAnalyze == InitAnalyze /\ [][NextAnalyze]_vars

----------------------------------------------------------------------------
(* Properties *)

Returned == pc = "returned" /\ ret.info # {}
Info == Val(ret.info)
Frame == Val(ret.df)
GoldenEMAs == Frame.prev.EMA_F <= Frame.prev.EMA_S /\ Frame.last.EMA_F > Frame.last.EMA_S
DeathEMAs == Frame.prev.EMA_F >= Frame.prev.EMA_S /\ Frame.last.EMA_F < Frame.last.EMA_S
RsiExtreme == FGt(Info.rsi, RsiOverbought) \/ FLt(Info.rsi, RsiOversold)
Max3(a, b, c) == IF a >= b /\ a >= c THEN a ELSE IF b >= c THEN b ELSE c

(* C1: on a Golden crossover the alert level is error only if the VIX      *)
(* delta is rising (positive), and warning otherwise; in particular a      *)
(* negative delta gives warning.                                           *)
C1_GoldenErrorOnlyOnRisingVix ==
  (Returned /\ GoldenEMAs) =>
     /\ Info.alert_level = "error" => vix_chg > 0
     /\ vix_chg < 0 => Info.alert_level = "warning"

(* C2: whenever the last two EMA pairs satisfy the Death condition, the    *)
(* record carries the death-crossover message with alert level error,      *)
(* whatever the VIX delta; Golden and Death never hold together.           *)
C2_DeathAlwaysError ==
  Returned =>
     /\ ~(GoldenEMAs /\ DeathEMAs)
     /\ DeathEMAs => (Info.msg = "DeathCross" /\ Info.alert_level = "error")

C2_Witness == Returned /\ DeathEMAs /\ vix_chg < 0

(* C3: a series with fewer than max(ema_slow_val, 14, 10) + 1 bars yields  *)
(* the insufficient-data result (None, {}), never a populated record.      *)
C3_ShortSeriesInsufficient ==
  (pc \in {"returned", "raised"} /\ df_raw # None
     /\ Len(Val(df_raw)) < Max3(ema_slow_val, RsiPeriod, VolWindow) + 1)
  => (exc = "none" /\ ret.df = None /\ ret.info = {})

(* C4: when the cycle is over, every symbol for which fetch_data returned  *)
(* nothing is recorded in stock_results with the no-data marker (None, {}).*)
C4_NoDataRecorded ==
  pc = "raised" =>
    \A i \in 1..Len(symbols) :
      fetch_data(yf[symbols[i]]) = None =>
        /\ symbols[i] \in DOMAIN stock_results
        /\ stock_results[symbols[i]] = <<None, {}>>

(* C5: analyze_stock never raises for a series of sufficient length,       *)
(* malformed values (a previous close of 0) included.                      *)
C5_AnalyzeNeverRaises ==
  (df_raw # None /\ Len(Val(df_raw)) >= MinBars) => exc = "none"

(* C6: with a VIX series of 0 or 1 bars, or a failed fetch, get_vix_info   *)
(* returns level 20.0 and delta 0.0, and with that delta a Golden          *)
(* crossover gets alert level warning, not error.                          *)
C6_DefaultVixNoEscalation ==
  (pc # "call_vix" /\ (yf[VixTicker].err \/ Len(yf[VixTicker].data) < 2)) =>
     /\ vix_val = DefaultVixVal
     /\ vix_chg = DefaultVixChg
     /\ (Returned /\ GoldenEMAs) => Info.alert_level = "warning"

C6_Witness ==
  /\ Returned
  /\ GoldenEMAs
  /\ ~yf[VixTicker].err
  /\ Len(yf[VixTicker].data) = 1
  /\ yf[VixTicker].data[1].Close # DefaultVixVal

(* C7: with no crossover and no RSI extreme, a last-bar volume ratio above *)
(* the spike threshold gives alert level warning; the level is success     *)
(* only when no crossover, RSI extreme or volume spike fires.              *)
C7_VolumeSpikeWarns ==
  Returned =>
     /\ (~GoldenEMAs /\ ~DeathEMAs /\ ~RsiExtreme /\ FGt(Info.vol_ratio, VolSpikeRatio))
           => Info.alert_level = "warning"
     /\ Info.alert_level = "success"
           => (~GoldenEMAs /\ ~DeathEMAs /\ ~RsiExtreme /\ ~FGt(Info.vol_ratio, VolSpikeRatio))

(* C9: no step between obtaining the VIX context and the per-symbol loop   *)
(* aborts the cycle: the run never ends in an exception.                   *)
C9_CycleNotAborted == pc # "raised" /\ exc = "none"

(* C10: in every non-empty info, alert_level is success, warning or error; *)
(* it is success exactly when msg is empty; and an RSI message comes with  *)
(* warning and only when neither crossover condition holds.                *)
C10_AlertLevelMatchesMsg ==
  Returned =>
     /\ Info.alert_level \in {"success", "warning", "error"}
     /\ Info.alert_level = "success" <=> Info.msg = ""
     /\ Info.msg \in {"RsiOverbought", "RsiOversold"}
           => (Info.alert_level = "warning" /\ RsiExtreme /\ ~GoldenEMAs /\ ~DeathEMAs)
     /\ (RsiExtreme /\ ~GoldenEMAs /\ ~DeathEMAs) => Info.alert_level = "warning"

C10_Witness ==
  /\ Returned
  /\ GoldenEMAs
  /\ RsiExtreme
  /\ Info.msg = "GoldenCross"

====
